---------------------------- MODULE Spec2Model ----------------------------
(***************************************************************************)
(* Model of the code execution and grading subsystem.                      *)
(*                                                                         *)
(*   src/code-executor/app.py                                              *)
(*       the Flask endpoint /execute and CodeExecutor.execute_code: one    *)
(*       temp source file per request in the shared directory              *)
(*       /tmp/executions, an optional compile child (javac, g++), one run  *)
(*       child under communicate(timeout), kill on expiry, unlink of the   *)
(*       source file in the finally block.                                 *)
(*   src/backend/app/services/code_execution_service.py                    *)
(*       CodeExecutionService.test_student_code, _execute_code and         *)
(*       _compare_outputs: one HTTP call per test case, comparison of the  *)
(*       returned stdout with the expected output, the grade summary.      *)
(*                                                                         *)
(* Strings whose content the code inspects (stdout, expected output) are   *)
(* sequences of one-character strings; other texts are TLA+ strings.       *)
(***************************************************************************)
EXTENDS Integers, Sequences, FiniteSets, TLC

(***************************************************************************)
(* Bounds of the model.                                                    *)
(***************************************************************************)
\* number of execute requests the service receives (they may overlap)
NumReqs == 2
\* largest number of test cases of one grading run
MaxTests == 2
\* largest number of recorded results a summary is computed from
MaxScored == 4
\* longest stdout and longest expected output the comparison is checked on
MaxActualLen == 3
MaxExpectedLen == 1

Reqs == 1 .. NumReqs

(***************************************************************************)
(* Language registry: CodeExecutor.__init__.                               *)
(***************************************************************************)
supported_languages == {"python", "javascript", "java", "cpp", "go"}

\* the 'extension' entry of the registry
Extension(l) ==
    CASE l = "python"     -> "py"
      [] l = "javascript" -> "js"
      [] l = "java"       -> "java"
      [] l = "cpp"        -> "cpp"
      [] l = "go"         -> "go"

\* language ids a request may carry: the registry's and one that is not in it
RequestLanguages == supported_languages \cup {"ruby"}

\* the branches of _build_command that run a compiler first
CompiledLanguages == {"java", "cpp"}

(***************************************************************************)
(* What the submitted programs can do (the environment of the service).    *)
(***************************************************************************)
\* texts a program may write to stdout
Outputs == { <<>>, <<"3">> }

\* class names a java source may declare; javac names the class file after
\* the declared class, not after the source file
ClassNames == {"Main", "Solution"}

\* How a run child can end on its own.  cause "exit": the program returned or
\* crashed by itself; cause "limit": it ran into RLIMIT_CPU / RLIMIT_AS /
\* RLIMIT_FSIZE set by set_limits (killed by the signal, -24 being SIGXCPU
\* as Popen.returncode reports it, or, for a runtime that catches the failed
\* allocation, an ordinary exit status 1).
ProgramExits ==
    [cause : {"exit"}, rc : {0}, stdout : Outputs, stderr : {""}]
      \cup [cause : {"exit"}, rc : {1}, stdout : Outputs, stderr : {"Traceback"}]
      \cup [cause : {"limit"}, rc : {1, -24}, stdout : {<<>>}, stderr : {"Traceback"}]

\* the java launcher when the class it was told to run is not on the class path
LauncherExit ==
    [cause |-> "exit", rc |-> 1, stdout |-> <<>>,
     stderr |-> "Error: Could not find or load main class"]

NoExit == [cause |-> "none"]

(***************************************************************************)
(* The shared execution directory /tmp/executions.                         *)
(***************************************************************************)
\* NamedTemporaryFile(dir='/tmp/executions') creates the file with O_EXCL
\* under a fresh random stem: every request gets a stem of its own.
TmpStem(r) == "tmp" \o ToString(r)

FilePath(stem, ext) == "/tmp/executions/" \o stem \o "." \o ext

\* a file of the directory: its path and the request whose data it holds
File(path, r) == [path |-> path, owner |-> r]

Paths(d) == { f.path : f \in d }

\* writing a file replaces a file of the same path
WriteFile(d, path, r) == { f \in d : f.path # path } \cup { File(path, r) }

\* os.unlink guarded by os.path.exists
Unlink(d, path) == { f \in d : f.path # path }

(***************************************************************************)
(* Results of CodeExecutor.execute_code.                                   *)
(***************************************************************************)
NoResult == [none |-> TRUE]

\* lines 65-72
RunResult(e) ==
    [stdout |-> e.stdout, stderr |-> e.stderr, return_code |-> e.rc,
     success |-> (e.rc = 0)]

\* line 36
UnsupportedResult(l) == [error |-> "Unsupported language: " \o l]

\* line 76
TimeoutResult == [error |-> "Execution timeout"]

\* line 79: str(e) of whatever exception reached the handler
FailedResult(detail) == [error |-> "Execution failed: " \o detail]

\* line 98 / 109: the exception raised on a non-zero compiler exit carries
\* the compiler's stderr, which names the source file
CompilerDiagnostic(path) == path \o ":1: error"

CompilationFailed(diag) == "Compilation failed: " \o diag

\* an OSError of Popen (command not found, fork failure, ...)
SpawnErrors == {"[Errno 2] No such file or directory", "[Errno 11] Resource temporarily unavailable"}

VARIABLES
    pc,         \* where each request is in execute_code
    lang,       \* the request's language
    dir,        \* the files of /tmp/executions
    compile,    \* the compile child: none, running, ok, failed
    run,        \* the run child: none, running, zombie (dead, not waited for), reaped
    exitInfo,   \* how the run child ended
    desc,       \* whether a process the run child spawned is alive
    expired,    \* whether communicate's timeout has elapsed
    result,     \* the dict execute_code returns
    responses,  \* the HTTP responses sent for the request
    rlimits     \* the resource limits of the service process and of each run child

evars == <<pc, lang, dir, compile, run, exitInfo, desc, expired, result, responses,
           rlimits>>

VARIABLES
    test_cases,    \* problem_data['test_cases']
    output_type,   \* problem_data['output_type']
    language,      \* the language of the submission
    gpc,           \* where test_student_code is: loop, await, done, raised
    idx,           \* how many test cases the for loop has taken
    inflight,      \* the execute call that has been sent and not yet answered
    results,       \* the list test_student_code builds
    summary,       \* what test_student_code returned
    cancelled      \* whether the caller of each request has given up on it

\* the variables of the callers of the executor
gvars == <<test_cases, output_type, language, gpc, idx, inflight, results, summary,
           cancelled>>

VARIABLES
    max_retries,   \* the argument of generate_structured_response
    attempt,       \* its loop variable
    spc,           \* its position
    llm_calls,     \* what each call of generate gave, in order
    structured     \* what it returned

lvars == <<max_retries, attempt, spc, llm_calls, structured>>

VARIABLES
    num_items,     \* the argument of _generate_in_batches
    batch_num,     \* the batches its loop has been through
    all_items,     \* its list all_items
    bpc,           \* its position
    finalized      \* what it returned

qvars == <<num_items, batch_num, all_items, bpc, finalized>>

VARIABLES
    course,        \* the rows of the table course
    course_id_seq, \* the sequence behind course.id
    cpc,           \* the position of each POST /courses/ request
    course_name,   \* the name each request carries
    created        \* the response each request got

cvars == <<course, course_id_seq, cpc, course_name, created>>

VARIABLES
    quiz,            \* the quiz row submit_quiz_attempt looks for, if there is one
    attempt_table,   \* the committed rows of the table attempt
    answer_table,    \* the committed rows of the table answer
    session,         \* the rows the call's session holds uncommitted
    attempt_id_seq,  \* the sequence behind attempt.id
    apc,             \* the position of the call
    gradings,        \* what grade_answer did for each question so far
    correct_answers, \* the local correct_answers
    submitted        \* what the call returned

avars == <<quiz, attempt_table, answer_table, session, attempt_id_seq, apc, gradings,
           correct_answers, submitted>>

\* the variables of the backend services other than the grader
bvars == <<lvars, qvars, cvars, avars>>

vars == <<pc, lang, dir, compile, run, exitInfo, desc, expired, result, responses,
          rlimits,
          test_cases, output_type, language, gpc, idx, inflight, results, summary,
          cancelled, bvars>>

Response(status, body) == [status |-> status, body |-> body]

\* what the framework sends when an exception leaves the view function: its
\* own HTML error page, not a JSON object
InternalServerErrorPage == [html |-> "500 Internal Server Error"]

\* app.py 13-15
MAX_EXECUTION_TIME == 10

MEMORY_LIMIT == 256 * 1024 * 1024

MAX_OUTPUT_SIZE == 1024 * 1024

\* resource.RLIM_INFINITY
RLIM_INFINITY == 0 - 1

\* the limits a process has when nothing has set them
Unlimited == [cpu |-> RLIM_INFINITY, as |-> RLIM_INFINITY, fsize |-> RLIM_INFINITY]

\* app.py 27-31: the limits set_limits gives to the process that calls it
set_limits == [cpu |-> MAX_EXECUTION_TIME, as |-> MEMORY_LIMIT, fsize |-> MAX_OUTPUT_SIZE]

ExecInit ==
    /\ rlimits = [service |-> Unlimited, child |-> [r \in Reqs |-> Unlimited]]
    /\ pc = [r \in Reqs |-> "idle"]
    /\ lang = [r \in Reqs |-> "none"]
    /\ dir = {}
    /\ compile = [r \in Reqs |-> "none"]
    /\ run = [r \in Reqs |-> "none"]
    /\ exitInfo = [r \in Reqs |-> NoExit]
    /\ desc = [r \in Reqs |-> FALSE]
    /\ expired = [r \in Reqs |-> FALSE]
    /\ result = [r \in Reqs |-> NoResult]
    /\ responses = [r \in Reqs |-> <<>>]

(***************************************************************************)
(* The endpoint /execute and CodeExecutor.execute_code, step by step.      *)
(***************************************************************************)
Respond(r, status, body) ==
    responses' = [responses EXCEPT ![r] = Append(@, Response(status, body))]

\* app.py 119-122: a body without 'language' or 'code'
BadRequest(r) ==
    /\ pc[r] = "idle"
    /\ Respond(r, 400, [error |-> "Missing language or code"])
    /\ pc' = [pc EXCEPT ![r] = "done"]
    /\ UNCHANGED <<lang, dir, compile, run, exitInfo, desc, expired, result>>
    /\ UNCHANGED <<gvars, bvars>>
    /\ UNCHANGED rlimits

\* faulty variant of execute_code: the registry is looked at only after the
\* source has been written to the execution directory
ExecuteUnsupported_AfterTempFile(r) ==
    /\ pc[r] = "idle"
    /\ \E l \in RequestLanguages \ supported_languages :
          /\ lang' = [lang EXCEPT ![r] = l]
          /\ result' = [result EXCEPT ![r] = UnsupportedResult(l)]
          /\ Respond(r, 200, UnsupportedResult(l))
    /\ dir' = WriteFile(dir, FilePath(TmpStem(r), "txt"), r)
    /\ pc' = [pc EXCEPT ![r] = "done"]
    /\ UNCHANGED <<compile, run, exitInfo, desc, expired>>
    /\ UNCHANGED <<gvars, bvars>>
    /\ UNCHANGED rlimits

\* app.py 35-36 and 130: the language is not in the registry
ExecuteUnsupported(r) ==
    /\ pc[r] = "idle"
    /\ \E l \in RequestLanguages \ supported_languages :
          /\ lang' = [lang EXCEPT ![r] = l]
          /\ result' = [result EXCEPT ![r] = UnsupportedResult(l)]
          /\ Respond(r, 200, UnsupportedResult(l))
    /\ pc' = [pc EXCEPT ![r] = "done"]
    /\ UNCHANGED <<dir, compile, run, exitInfo, desc, expired>>
    /\ UNCHANGED <<gvars, bvars>>
    /\ UNCHANGED rlimits

\* app.py 38-45: the source is written to a fresh file of the shared directory
CreateTempFile(r) ==
    /\ pc[r] = "idle"
    /\ \E l \in supported_languages :
          /\ lang' = [lang EXCEPT ![r] = l]
          /\ dir' = WriteFile(dir, FilePath(TmpStem(r), Extension(l)), r)
    /\ pc' = [pc EXCEPT ![r] = "build"]
    /\ UNCHANGED <<compile, run, exitInfo, desc, expired, result, responses>>
    /\ UNCHANGED <<gvars, bvars>>
    /\ UNCHANGED rlimits

\* app.py 38-45: NamedTemporaryFile or f.write raises (directory missing,
\* disk full, a 'code' that is not a string); the statement is outside the
\* try block, so the exception leaves execute_code and the framework
\* answers 500
TempFileError(r) ==
    /\ pc[r] = "idle"
    /\ Respond(r, 500, InternalServerErrorPage)
    /\ pc' = [pc EXCEPT ![r] = "done"]
    /\ UNCHANGED <<lang, dir, compile, run, exitInfo, desc, expired, result>>
    /\ UNCHANGED <<gvars, bvars>>
    /\ UNCHANGED rlimits

\* app.py 80-83: what the finally block removes
Cleanup(r) == Unlink(dir, FilePath(TmpStem(r), Extension(lang[r])))

\* faulty variant of the endpoint: the dict execute_code returns is dropped
\* and nothing is sent
ReturnFromExecute_NoResponse(r, res) ==
    /\ result' = [result EXCEPT ![r] = res]
    /\ dir' = Cleanup(r)
    /\ pc' = [pc EXCEPT ![r] = "done"]
    /\ UNCHANGED responses

\* a return statement inside the try block: the finally block runs (app.py
\* 80-83), execute_code returns res and the endpoint sends it (app.py 130)
ReturnFromExecute(r, res) ==
    /\ result' = [result EXCEPT ![r] = res]
    /\ dir' = Cleanup(r)
    /\ Respond(r, 200, res)
    /\ pc' = [pc EXCEPT ![r] = "done"]

\* an exception inside the try block: the except clause of app.py 78-79
\* returns the error dict
RaiseInTry(r, detail) == ReturnFromExecute(r, FailedResult(detail))

\* app.py 85-112: _build_command up to the point where it either has the
\* command (interpreted languages) or has spawned the compiler
BuildCommand(r) ==
    /\ pc[r] = "build"
    /\ IF lang[r] \in CompiledLanguages
         THEN /\ compile' = [compile EXCEPT ![r] = "running"]
              /\ pc' = [pc EXCEPT ![r] = "compiling"]
         ELSE /\ pc' = [pc EXCEPT ![r] = "popen"]
              /\ UNCHANGED compile
    /\ UNCHANGED <<lang, dir, run, exitInfo, desc, expired, result, responses>>
    /\ UNCHANGED <<gvars, bvars>>
    /\ UNCHANGED rlimits

\* the files a successful compile leaves in the directory: javac writes
\* <declared class>.class beside the source, g++ writes <stem>.out
CompileOutput(r, c) ==
    IF lang[r] = "java"
      THEN WriteFile(dir, FilePath(c, "class"), r)
      ELSE WriteFile(dir, FilePath(TmpStem(r), "out"), r)

\* app.py 92-99 / 103-110: subprocess.run returned with exit status 0
CompileSucceeds(r) ==
    /\ pc[r] = "compiling"
    /\ \E c \in ClassNames : dir' = CompileOutput(r, c)
    /\ compile' = [compile EXCEPT ![r] = "ok"]
    /\ pc' = [pc EXCEPT ![r] = "popen"]
    /\ UNCHANGED <<lang, run, exitInfo, desc, expired, result, responses>>
    /\ UNCHANGED <<gvars, bvars>>
    /\ UNCHANGED rlimits

\* faulty variant of _build_command: the compiler's exit status is not
\* looked at and the run command is returned all the same
CompileFails_Ignored(r) ==
    /\ pc[r] = "compiling"
    /\ compile' = [compile EXCEPT ![r] = "failed"]
    /\ pc' = [pc EXCEPT ![r] = "popen"]
    /\ UNCHANGED <<lang, dir, run, exitInfo, desc, expired, result, responses>>
    /\ UNCHANGED <<gvars, bvars>>
    /\ UNCHANGED rlimits

\* faulty variant of _build_command: after a non-zero exit status the
\* compile step is tried again
CompileFails_Retry(r) ==
    /\ pc[r] = "compiling"
    /\ compile' = [compile EXCEPT ![r] = "failed"]
    /\ pc' = [pc EXCEPT ![r] = "build"]
    /\ UNCHANGED <<lang, dir, run, exitInfo, desc, expired, result, responses>>
    /\ UNCHANGED <<gvars, bvars>>
    /\ UNCHANGED rlimits

\* app.py 97-98 / 108-109: non-zero exit status, the exception is raised
\* inside the try block of execute_code
CompileFails(r) ==
    /\ pc[r] = "compiling"
    /\ compile' = [compile EXCEPT ![r] = "failed"]
    /\ RaiseInTry(r, CompilationFailed(
                        CompilerDiagnostic(FilePath(TmpStem(r), Extension(lang[r])))))
    /\ UNCHANGED <<lang, run, exitInfo, desc, expired>>
    /\ UNCHANGED <<gvars, bvars>>
    /\ UNCHANGED rlimits

\* faulty variant of the spawn: set_limits is called by the service itself
\* before it starts the child, which inherits the limits
Popen_LimitsInParent(r) ==
    /\ pc[r] = "popen"
    /\ \/ /\ run' = [run EXCEPT ![r] = "running"]
          /\ pc' = [pc EXCEPT ![r] = "communicate"]
          /\ rlimits' = [service |-> set_limits,
                         child |-> [rlimits.child EXCEPT ![r] = set_limits]]
          /\ UNCHANGED <<dir, result, responses>>
       \/ /\ \E e \in SpawnErrors : RaiseInTry(r, e)
          /\ UNCHANGED <<run, rlimits>>
    /\ UNCHANGED <<lang, compile, exitInfo, desc, expired>>
    /\ UNCHANGED <<gvars, bvars>>

\* app.py 51-58: the run child is spawned, or Popen raises.  preexec_fn runs
\* set_limits in the child, after the fork and before the exec of the
\* command.
Popen(r) ==
    /\ pc[r] = "popen"
    /\ \/ /\ run' = [run EXCEPT ![r] = "running"]
          /\ pc' = [pc EXCEPT ![r] = "communicate"]
          /\ rlimits' = [rlimits EXCEPT !.child[r] = set_limits]
          /\ UNCHANGED <<dir, result, responses>>
       \/ /\ \E e \in SpawnErrors : RaiseInTry(r, e)
          /\ UNCHANGED <<run, rlimits>>
    /\ UNCHANGED <<lang, compile, exitInfo, desc, expired>>
    /\ UNCHANGED <<gvars, bvars>>

\* the submitted program starts a process of its own, which inherits the
\* child's stdout and stderr pipes
ChildForks(r) ==
    /\ run[r] = "running"
    /\ ~desc[r]
    /\ desc' = [desc EXCEPT ![r] = TRUE]
    /\ UNCHANGED <<pc, lang, dir, compile, run, exitInfo, expired, result, responses>>
    /\ UNCHANGED <<gvars, bvars>>
    /\ UNCHANGED rlimits

\* what the run child executes: `java -cp /tmp/executions <stem>` loads
\* <stem>.class from the directory; every other command runs the program
ChildExitChoices(r) ==
    IF lang[r] = "java" /\ FilePath(TmpStem(r), "class") \notin Paths(dir)
      THEN {LauncherExit}
      ELSE ProgramExits

\* the run child ends on its own (it is a zombie until someone waits for
\* it; its exit status and output are first seen by whoever collects them)
ChildExits(r) ==
    /\ run[r] = "running"
    /\ run' = [run EXCEPT ![r] = "zombie"]
    /\ UNCHANGED <<pc, lang, dir, compile, exitInfo, desc, expired, result, responses>>
    /\ UNCHANGED <<gvars, bvars>>
    /\ UNCHANGED rlimits

DescendantExits(r) ==
    /\ desc[r]
    /\ desc' = [desc EXCEPT ![r] = FALSE]
    /\ UNCHANGED <<pc, lang, dir, compile, run, exitInfo, expired, result, responses>>
    /\ UNCHANGED <<gvars, bvars>>
    /\ UNCHANGED rlimits

\* communicate cannot return yet: the child runs, or a process still holds
\* the write end of its pipes
Blocked(r) == run[r] = "running" \/ desc[r]

\* app.py 61-72: communicate read both pipes to their end and waited for
\* the child
CommunicateReturns(r) ==
    /\ pc[r] = "communicate"
    /\ ~expired[r]
    /\ ~Blocked(r)
    /\ run' = [run EXCEPT ![r] = "reaped"]
    /\ \E e \in ChildExitChoices(r) :
          /\ exitInfo' = [exitInfo EXCEPT ![r] = e]
          /\ ReturnFromExecute(r, RunResult(e))
    /\ UNCHANGED <<lang, compile, desc, expired>>
    /\ UNCHANGED <<gvars, bvars>>
    /\ UNCHANGED rlimits

\* a block of output of twice the configured maximum, as one element of a
\* text
LargeBlock == "<2 MiB>"

\* the number of bytes of a text
RECURSIVE Size(_)
Size(text) ==
    IF text = <<>> THEN 0
    ELSE (IF Head(text) = LargeBlock THEN 2 * MAX_OUTPUT_SIZE ELSE 1) + Size(Tail(text))

\* a program that writes a large block to stdout and exits
LargeExits == { [cause |-> "exit", rc |-> 0, stdout |-> <<LargeBlock>>, stderr |-> ""] }

\* app.py 61-72 for a child that wrote a large block: communicate reads the
\* pipes to their end into memory, whatever their length (RLIMIT_FSIZE of
\* set_limits bounds the files the child writes, not its pipes)
CommunicateReturnsLarge(r) ==
    /\ pc[r] = "communicate"
    /\ ~expired[r]
    /\ ~Blocked(r)
    /\ lang[r] # "java"
    /\ run' = [run EXCEPT ![r] = "reaped"]
    /\ \E e \in LargeExits :
          /\ exitInfo' = [exitInfo EXCEPT ![r] = e]
          /\ ReturnFromExecute(r, RunResult(e))
    /\ UNCHANGED <<lang, compile, desc, expired>>
    /\ UNCHANGED <<gvars, bvars>>
    /\ UNCHANGED rlimits

\* MAX_EXECUTION_TIME seconds have passed in communicate
DeadlineExpires(r) ==
    /\ pc[r] = "communicate"
    /\ ~expired[r]
    /\ Blocked(r)
    /\ expired' = [expired EXCEPT ![r] = TRUE]
    /\ UNCHANGED <<pc, lang, dir, compile, run, exitInfo, desc, result, responses>>
    /\ UNCHANGED <<gvars, bvars>>
    /\ UNCHANGED rlimits

\* process.kill(): Popen.send_signal polls first (reaping a child that has
\* already ended; its exit status is read and never used) and otherwise sends
\* SIGKILL to the child's pid alone; it does not wait for the child and does
\* not signal the child's descendants
Kill(r) ==
    /\ run' = [run EXCEPT ![r] = IF @ = "running" THEN "zombie" ELSE "reaped"]
    /\ exitInfo' = [exitInfo EXCEPT ![r] =
                       IF run[r] = "running" THEN [cause |-> "killed"]
                                             ELSE [cause |-> "unread"]]
    /\ UNCHANGED desc

\* faulty variant of the wait: communicate() without timeout, which comes
\* back only when the child has ended and its pipes are closed
TimeoutExpired_NoTimeout(r) ==
    /\ pc[r] = "communicate"
    /\ expired[r]
    /\ ~Blocked(r)
    /\ run' = [run EXCEPT ![r] = "reaped"]
    /\ \E e \in ChildExitChoices(r) :
          /\ exitInfo' = [exitInfo EXCEPT ![r] = e]
          /\ ReturnFromExecute(r, RunResult(e))
    /\ UNCHANGED <<lang, compile, desc, expired>>
    /\ UNCHANGED <<gvars, bvars>>
    /\ UNCHANGED rlimits

\* app.py 74-76: communicate raised TimeoutExpired
TimeoutExpired(r) ==
    /\ pc[r] = "communicate"
    /\ expired[r]
    /\ Kill(r)
    /\ ReturnFromExecute(r, TimeoutResult)
    /\ UNCHANGED <<lang, compile, expired>>
    /\ UNCHANGED <<gvars, bvars>>
    /\ UNCHANGED rlimits

\* the Popen object of a finished call is collected: Popen.__del__ polls
\* the child once, which reaps it when it is dead
PopenDel(r) ==
    /\ pc[r] = "done"
    /\ run[r] = "zombie"
    /\ run' = [run EXCEPT ![r] = "reaped"]
    /\ UNCHANGED <<pc, lang, dir, compile, exitInfo, desc, expired, result, responses>>
    /\ UNCHANGED <<gvars, bvars>>
    /\ UNCHANGED rlimits

\* the steps of the service itself
ServiceStep(r) ==
    \/ BadRequest(r)
    \/ ExecuteUnsupported(r)
    \/ CreateTempFile(r)
    \/ TempFileError(r)
    \/ BuildCommand(r)
    \/ Popen(r)
    \/ CommunicateReturns(r)
    \/ TimeoutExpired(r)
    \/ PopenDel(r)

\* the steps of the compilers, the submitted programs and the clock
EnvironmentStep(r) ==
    \/ CompileSucceeds(r)
    \/ CompileFails(r)
    \/ ChildForks(r)
    \/ ChildExits(r)
    \/ DescendantExits(r)
    \/ DeadlineExpires(r)

ExecNext == \E r \in Reqs : ServiceStep(r) \/ EnvironmentStep(r)

\* code_execution_service.py 52-56: the caller of a request that is being
\* handled gives up before the executor's own deadline (requests.post ran
\* into timeout=30, or the client closed the connection).  Nothing in the
\* handler looks at the connection: no other variable changes.
CallerDisconnects(r) ==
    /\ pc[r] \notin {"idle", "done"}
    /\ ~cancelled[r]
    /\ ~expired[r]
    /\ cancelled' = [cancelled EXCEPT ![r] = TRUE]
    /\ UNCHANGED <<test_cases, output_type, language, gpc, idx, inflight, results, summary>>
    /\ UNCHANGED <<evars, bvars>>

(***************************************************************************)
(* What the executor can answer, as the grading service sees it.           *)
(***************************************************************************)
\* every dict execute_code can return for a request in language l
ExecutorResults(l) ==
    IF l \notin supported_languages
      THEN {UnsupportedResult(l)}
      ELSE { RunResult(e) : e \in IF l = "java" THEN {LauncherExit} ELSE ProgramExits }
             \cup {TimeoutResult}
             \cup { FailedResult(e) : e \in SpawnErrors }
             \cup IF l \in CompiledLanguages
                    THEN { FailedResult(CompilationFailed(
                               CompilerDiagnostic(FilePath(TmpStem(r), Extension(l))))) :
                           r \in Reqs }
                    ELSE {}

\* what requests.post can come back with: a response of the service, or an
\* exception of the requests library before any response was read
HttpOutcomes(l) ==
    { Response(200, b) : b \in ExecutorResults(l) }
      \cup { Response(500, InternalServerErrorPage) }
      \cup { [exception |-> "ConnectionError"], [exception |-> "ReadTimeout"] }

(***************************************************************************)
(* CodeExecutionService._compare_outputs and the string functions it uses. *)
(***************************************************************************)
\* dict.get(key, default)
Get(d, key, default) == IF key \in DOMAIN d THEN d[key] ELSE default

None == [none |-> TRUE]

\* the whitespace characters of the modelled alphabet
Whitespace == {" ", "\n", "\t", "\r"}

RECURSIVE LStrip(_)
LStrip(s) == IF s # <<>> /\ Head(s) \in Whitespace THEN LStrip(Tail(s)) ELSE s

RECURSIVE RStrip(_)
RStrip(s) ==
    IF s # <<>> /\ s[Len(s)] \in Whitespace THEN RStrip(SubSeq(s, 1, Len(s) - 1)) ELSE s

\* str.strip()
Strip(s) == RStrip(LStrip(s))

\* str.lower() on the letters of the modelled alphabet
LowerChar(c) ==
    CASE c = "A" -> "a"
      [] c = "B" -> "b"
      [] OTHER   -> c

Lower(s) == [i \in 1 .. Len(s) |-> LowerChar(s[i])]

\* the `in` operator on strings
IsSubstring(needle, hay) ==
    \E i \in 0 .. (Len(hay) - Len(needle)) : SubSeq(hay, i + 1, i + Len(needle)) = needle

DigitChars == {"0", "1", "2", "3", "4", "5", "6", "7", "8", "9"}

DigitVal(c) ==
    CASE c = "0" -> 0 [] c = "1" -> 1 [] c = "2" -> 2 [] c = "3" -> 3 [] c = "4" -> 4
      [] c = "5" -> 5 [] c = "6" -> 6 [] c = "7" -> 7 [] c = "8" -> 8 [] c = "9" -> 9

RECURSIVE DigitsValue(_)
DigitsValue(s) ==
    IF s = <<>> THEN 0 ELSE 10 * DigitsValue(SubSeq(s, 1, Len(s) - 1)) + DigitVal(s[Len(s)])

AllDigits(s) == \A i \in 1 .. Len(s) : s[i] \in DigitChars

\* the text without a leading sign
Unsigned(s) == IF s # <<>> /\ Head(s) \in {"+", "-"} THEN Tail(s) ELSE s

\* position of the decimal point, 0 when there is none
PointAt(s) == IF \E i \in 1 .. Len(s) : s[i] = "." THEN CHOOSE i \in 1 .. Len(s) : s[i] = "." ELSE 0

IntPart(s) == IF PointAt(s) = 0 THEN s ELSE SubSeq(s, 1, PointAt(s) - 1)

FracPart(s) == IF PointAt(s) = 0 THEN <<>> ELSE SubSeq(s, PointAt(s) + 1, Len(s))

\* float(s) does not raise ValueError: an optional sign, then digits with at
\* most one decimal point and at least one digit (decimal literals without
\* exponent are the numbers of the modelled alphabet)
IsFloat(s) ==
    LET u == Unsigned(Strip(s))
    IN  /\ AllDigits(IntPart(u))
        /\ AllDigits(FracPart(u))
        /\ Len(IntPart(u)) + Len(FracPart(u)) > 0

RECURSIVE Normalize(_, _)
\* a decimal m / 10^k in lowest terms
Normalize(m, k) ==
    IF m = 0 THEN <<0, 0>>
    ELSE IF k > 0 /\ m % 10 = 0 THEN Normalize(m \div 10, k - 1)
    ELSE <<m, k>>

\* the value of float(s) as <<mantissa, decimals>>, -0.0 being equal to 0.0
FloatValue(s) ==
    LET t == Strip(s)
        u == Unsigned(t)
        m == DigitsValue(IntPart(u) \o FracPart(u))
        n == Normalize(m, Len(FracPart(u)))
    IN  IF t # <<>> /\ Head(t) = "-" THEN <<0 - n[1], n[2]>> ELSE n

\* faulty variant: the texts are compared as they are, not stripped
compare_outputs_NoStrip(actual, expected, comparison_type) ==
    CASE comparison_type = "numeric" ->
            IF IsFloat(actual) /\ IsFloat(expected)
              THEN FloatValue(actual) = FloatValue(expected)
              ELSE actual = expected
      [] comparison_type = "contains" -> IsSubstring(Lower(expected), Lower(actual))
      [] OTHER -> actual = expected

\* faulty variant: a text float() rejects makes the numeric comparison fail
\* instead of falling back to the comparison of the texts
compare_outputs_NoFallback(actual, expected, comparison_type) ==
    LET actual_clean == Strip(actual)
        expected_clean == Strip(expected)
    IN  CASE comparison_type = "numeric" ->
                /\ IsFloat(actual_clean) /\ IsFloat(expected_clean)
                /\ FloatValue(actual_clean) = FloatValue(expected_clean)
          [] comparison_type = "contains" ->
                IsSubstring(Lower(expected_clean), Lower(actual_clean))
          [] OTHER -> actual_clean = expected_clean

\* faulty variant: the contains mode without .lower()
compare_outputs_CaseSensitive(actual, expected, comparison_type) ==
    LET actual_clean == Strip(actual)
        expected_clean == Strip(expected)
    IN  CASE comparison_type = "numeric" ->
                IF IsFloat(actual_clean) /\ IsFloat(expected_clean)
                  THEN FloatValue(actual_clean) = FloatValue(expected_clean)
                  ELSE actual_clean = expected_clean
          [] comparison_type = "contains" -> IsSubstring(expected_clean, actual_clean)
          [] OTHER -> actual_clean = expected_clean

\* code_execution_service.py 63-78
compare_outputs(actual, expected, comparison_type) ==
    LET actual_clean == Strip(actual)
        expected_clean == Strip(expected)
    IN  CASE comparison_type = "exact" -> actual_clean = expected_clean
          [] comparison_type = "numeric" ->
                IF IsFloat(actual_clean) /\ IsFloat(expected_clean)
                  THEN FloatValue(actual_clean) = FloatValue(expected_clean)
                  ELSE actual_clean = expected_clean
          [] comparison_type = "contains" ->
                IsSubstring(Lower(expected_clean), Lower(actual_clean))
          [] OTHER -> actual_clean = expected_clean

(***************************************************************************)
(* CodeExecutionService.test_student_code and _execute_code.               *)
(***************************************************************************)
\* the test cases a problem may hold
TestCasePool ==
    { [id |-> 7, input |-> <<"3">>, expected_output |-> <<"3", ".", "0">>, hidden |-> FALSE],
      [id |-> 3, input |-> <<>>,    expected_output |-> <<" ">>,           hidden |-> TRUE],
      [id |-> 5, input |-> <<"A">>, expected_output |-> <<"3", "\n">>,     hidden |-> FALSE] }

RECURSIVE SeqsUpTo(_, _)
\* the sequences over S of length at most n
SeqsUpTo(S, n) ==
    IF n = 0 THEN {<<>>}
    ELSE LET shorter == SeqsUpTo(S, n - 1)
         IN  shorter \cup { Append(q, x) : q \in shorter, x \in S }

\* the values of problem_data['output_type'], one of them no known mode
OutputTypes == {"exact", "numeric", "contains", "fuzzy"}

\* problem_data without the key 'output_type'
NoOutputType == "(absent)"

\* code_execution_service.py 21: problem_data.get('output_type', 'exact')
ModeOf(t) == IF t = NoOutputType THEN "exact" ELSE t

\* faulty variant of _execute_code: no except clause, so an exception of
\* requests.post or raise_for_status leaves the function
execute_code_outcome_NoCatch(o) ==
    IF "exception" \in DOMAIN o
      THEN [raised |-> o.exception]
    ELSE IF o.status >= 400
      THEN [raised |-> "HTTPError"]
    ELSE [returned |-> o.body]

\* code_execution_service.py 43-61: what _execute_code does with the outcome
\* of requests.post: raise_for_status turns a 4xx/5xx response into an
\* HTTPError, every RequestException becomes an error dict
execute_code_outcome(o) ==
    IF "exception" \in DOMAIN o
      THEN [returned |-> [error |-> "Execution service error: " \o o.exception]]
    ELSE IF o.status >= 400
      THEN [returned |-> [error |-> "Execution service error: HTTPError"]]
    ELSE [returned |-> o.body]

\* code_execution_service.py 18-22
Passed(execution_result, test_case, mode) ==
    compare_outputs(Get(execution_result, "stdout", <<>>),
                    test_case.expected_output, mode)

\* faulty variant of the loop body: a hidden test case counts as passed
\* whatever the program printed
TestCaseResult_HiddenLenient(test_case, execution_result, mode) ==
    [test_case_id |-> test_case.id,
     passed |-> test_case.hidden \/ Passed(execution_result, test_case, mode),
     expected |-> test_case.expected_output,
     actual |-> Get(execution_result, "stdout", None),
     input |-> test_case.input,
     execution_result |-> execution_result]

\* code_execution_service.py 24-31
TestCaseResult(test_case, execution_result, mode) ==
    [test_case_id |-> test_case.id,
     passed |-> Passed(execution_result, test_case, mode),
     expected |-> test_case.expected_output,
     actual |-> Get(execution_result, "stdout", None),
     input |-> test_case.input,
     execution_result |-> execution_result]

RECURSIVE PassedCount(_)
\* code_execution_service.py 33
PassedCount(rs) ==
    IF rs = <<>> THEN 0
    ELSE (IF Head(rs).passed THEN 1 ELSE 0) + PassedCount(Tail(rs))

RECURSIVE Gcd(_, _)
Gcd(a, b) == IF b = 0 THEN a ELSE Gcd(b, a % b)

\* faulty variant of the score: floor division of the two counts, which is
\* 0 unless every test case passed
TotalScore_FloorDiv(passed_count, n) ==
    IF n = 0 THEN <<0, 1>> ELSE <<(passed_count \div n) * 100, 1>>

\* code_execution_service.py 34: (passed_count / len(results)) * 100 as a
\* fraction in lowest terms, 0 for an empty list
TotalScore(passed_count, n) ==
    IF n = 0 THEN <<0, 1>>
    ELSE LET g == Gcd(passed_count * 100, n)
         IN  <<(passed_count * 100) \div g, n \div g>>

\* code_execution_service.py 36-41
GradeSummary(rs) ==
    [score |-> TotalScore(PassedCount(rs), Len(rs)),
     total_tests |-> Len(rs),
     passed_tests |-> PassedCount(rs),
     detailed_results |-> rs]

NoCall == [none |-> TRUE]

\* the languages of the graded submissions, one for each set of answers the
\* executor has: an interpreted language (javascript and go get the answers
\* python gets), the two compiled ones and one that is not in the registry
GradedLanguages == {"python", "java", "cpp", "ruby"}

GradeInit ==
    /\ test_cases \in SeqsUpTo(TestCasePool, MaxTests)
    /\ output_type \in OutputTypes
    /\ language \in GradedLanguages
    /\ gpc = "loop"
    /\ idx = 0
    /\ inflight = NoCall
    /\ results = <<>>
    /\ summary = None
    /\ cancelled = [r \in Reqs |-> FALSE]

\* no grading run: the state of the grading service under Spec
GradeIdle ==
    /\ test_cases = <<>>
    /\ output_type = "exact"
    /\ language = "none"
    /\ gpc = "idle"
    /\ idx = 0
    /\ inflight = NoCall
    /\ results = <<>>
    /\ summary = None
    /\ cancelled = [r \in Reqs |-> FALSE]

\* faulty variant of the call: every call carries the input of the first
\* test case
PostExecute_FirstInput ==
    /\ gpc = "loop"
    /\ idx < Len(test_cases)
    /\ inflight' = [language |-> language, code |-> "student_code",
                    input |-> test_cases[1].input]
    /\ gpc' = "await"
    /\ UNCHANGED <<test_cases, output_type, language, idx, results, summary, cancelled>>
    /\ UNCHANGED <<evars, bvars>>

\* code_execution_service.py 15-16 and 46-56: the call for the next test case
PostExecute ==
    /\ gpc = "loop"
    /\ idx < Len(test_cases)
    /\ inflight' = [language |-> language, code |-> "student_code",
                    input |-> test_cases[idx + 1].input]
    /\ gpc' = "await"
    /\ UNCHANGED <<test_cases, output_type, language, idx, results, summary, cancelled>>
    /\ UNCHANGED <<evars, bvars>>

\* faulty variant of the loop body: a test case whose execution gave an
\* error dict is skipped instead of recorded
AppendResult_SkipErrors(rs, x) ==
    IF "error" \in DOMAIN x.execution_result THEN rs ELSE Append(rs, x)

\* code_execution_service.py 24-31: results.append
AppendResult(rs, x) == Append(rs, x)

\* code_execution_service.py 16-31 and 57-61: the call comes back with o
\* and the loop body records the test case; an exception leaving
\* _execute_code would leave test_student_code as well
RecordOutcome(o) ==
    /\ gpc = "await"
    /\ LET out == execute_code_outcome(o)
           test_case == test_cases[idx + 1]
       IN  IF "returned" \in DOMAIN out
             THEN /\ results' = AppendResult(results,
                                  TestCaseResult(test_case, out.returned,
                                                 ModeOf(output_type)))
                  /\ gpc' = "loop"
             ELSE /\ gpc' = "raised"
                  /\ UNCHANGED results
    /\ idx' = idx + 1
    /\ inflight' = NoCall
    /\ UNCHANGED <<test_cases, output_type, language, summary, cancelled>>
    /\ UNCHANGED <<evars, bvars>>

\* the call is answered by the executor service, or fails
RecordResult == \E o \in HttpOutcomes(language) : RecordOutcome(o)

\* code_execution_service.py 33-41
ReturnSummary ==
    /\ gpc = "loop"
    /\ idx = Len(test_cases)
    /\ summary' = GradeSummary(results)
    /\ gpc' = "done"
    /\ UNCHANGED <<test_cases, output_type, language, idx, inflight, results, cancelled>>
    /\ UNCHANGED <<evars, bvars>>

GradeNext == PostExecute \/ RecordResult \/ ReturnSummary

(***************************************************************************)
(* LLMService.generate_structured_response and _final_structured_attempt.  *)
(***************************************************************************)
MaxRetries == 3

\* what one call of generate gives: a text that holds the JSON asked for, a
\* text that holds none, no text at all, or an exception of the client
Generations == {"json", "prose", "none", "raise"}

\* llm_service.py 180-198: _extract_and_validate_json gives a dict for a text
\* with JSON in it and None for another text; len(text) of its first line
\* raises TypeError when there is no text
ExtractOutcome(g) ==
    CASE g = "json"  -> [json_data |-> [questions |-> "parsed"]]
      [] g = "prose" -> [json_data |-> None]
      [] g = "none"  -> [raised |-> "TypeError"]
      [] OTHER       -> [raised |-> "generate"]

\* llm_service.py 171-177
build_error_result(error, attempts) ==
    [error |-> error, attempts |-> attempts, last_prompt |-> "prompt"]

\* no call of generate_structured_response
LlmIdle ==
    /\ max_retries = 0
    /\ attempt = 0
    /\ spc = "idle"
    /\ llm_calls = <<>>
    /\ structured = None

\* llm_service.py 112-119: the call with an initialised client, at the head
\* of the loop
LlmInit ==
    /\ max_retries \in (0 - 1) .. MaxRetries
    /\ attempt = 0
    /\ spc = "loop"
    /\ llm_calls = <<>>
    /\ structured = None

\* a return of generate_structured_response
ReturnStructured(value) ==
    /\ structured' = value
    /\ spc' = "returned"

\* llm_service.py 119 and 143: range(max_retries + 1) is exhausted
LoopExhausted ==
    /\ spc = "loop"
    /\ attempt > max_retries
    /\ ReturnStructured(build_error_result("All generation attempts failed",
                                           max_retries + 1))
    /\ UNCHANGED <<max_retries, attempt, llm_calls>>
    /\ UNCHANGED <<evars, gvars, qvars, cvars, avars>>

\* llm_service.py 119-141: one iteration up to its return, its sleep, its
\* next iteration or the final attempt
Attempt ==
    /\ spc = "loop"
    /\ attempt <= max_retries
    /\ \E g \in Generations :
          /\ llm_calls' = Append(llm_calls, g)
          /\ LET x == ExtractOutcome(g)
             IN  IF "raised" \in DOMAIN x
                   THEN IF attempt = max_retries
                          THEN /\ ReturnStructured(build_error_result(x.raised,
                                                                      attempt + 1))
                               /\ UNCHANGED attempt
                          ELSE /\ spc' = "sleep"
                               /\ UNCHANGED <<attempt, structured>>
                   ELSE IF x.json_data # None
                          THEN /\ ReturnStructured(x.json_data)
                               /\ UNCHANGED attempt
                          ELSE IF attempt = max_retries
                                 THEN /\ spc' = "final"
                                      /\ UNCHANGED <<attempt, structured>>
                                 ELSE /\ attempt' = attempt + 1
                                      /\ UNCHANGED <<spc, structured>>
    /\ UNCHANGED max_retries
    /\ UNCHANGED <<evars, gvars, qvars, cvars, avars>>

\* llm_service.py 141: asyncio.sleep(1) is over, the next iteration begins
SleepOver ==
    /\ spc = "sleep"
    /\ attempt' = attempt + 1
    /\ spc' = "loop"
    /\ UNCHANGED <<max_retries, llm_calls, structured>>
    /\ UNCHANGED <<evars, gvars, qvars, cvars, avars>>

\* faulty variant of the final attempt: it is made after the try statement,
\* so what it raises leaves generate_structured_response
final_structured_attempt_Uncaught ==
    /\ spc = "final"
    /\ \E g \in Generations :
          /\ llm_calls' = Append(llm_calls, g)
          /\ LET x == ExtractOutcome(g)
             IN  IF "raised" \in DOMAIN x
                   THEN /\ spc' = "raised"
                        /\ UNCHANGED structured
                   ELSE IF x.json_data # None
                          THEN ReturnStructured(x.json_data)
                          ELSE ReturnStructured(build_error_result(
                                   "Final structured attempt failed", "final"))
    /\ UNCHANGED <<max_retries, attempt>>
    /\ UNCHANGED <<evars, gvars, qvars, cvars, avars>>

\* llm_service.py 135-136 and 151-169, with 138-140: the final attempt is
\* made inside the try statement of the last iteration, whose except clause
\* turns what it raises into an error result
final_structured_attempt ==
    /\ spc = "final"
    /\ \E g \in Generations :
          /\ llm_calls' = Append(llm_calls, g)
          /\ LET x == ExtractOutcome(g)
             IN  IF "raised" \in DOMAIN x
                   THEN ReturnStructured(build_error_result(x.raised, attempt + 1))
                   ELSE IF x.json_data # None
                          THEN ReturnStructured(x.json_data)
                          ELSE ReturnStructured(build_error_result(
                                   "Final structured attempt failed", "final"))
    /\ UNCHANGED <<max_retries, attempt>>
    /\ UNCHANGED <<evars, gvars, qvars, cvars, avars>>

(***************************************************************************)
(* LLMService._generate_in_batches, _process_batch_generation and          *)
(* _finalize_items, for item_type = "questions".                           *)
(***************************************************************************)
MaxItems == 7

\* llm_service.py 20
max_items_per_call == 5

\* the value of a "type" key that is a JSON number
NumberType == "<number 1>"

\* the items a response of the model may hold under "questions": a short
\* answer question, an item without type, an item without question text and
\* an item whose type is a number
ItemPool ==
    { [type |-> "SHORT_ANSWER", question |-> "Q"],
      [type |-> "",             question |-> "Q"],
      [type |-> "SHORT_ANSWER", question |-> ""],
      [type |-> NumberType,     question |-> "Q"] }

\* llm_service.py 401-421
create_fallback_item == [type |-> "SHORT_ANSWER", question |-> "Explain", fallback |-> TRUE]

\* llm_service.py 321-323
create_fallback_items(count) == [i \in 1 .. count |-> create_fallback_item]

RECURSIVE calculate_batch_sizes(_)
\* llm_service.py 309-319
calculate_batch_sizes(remaining) ==
    IF remaining > 0
      THEN LET batch_size == IF remaining < max_items_per_call THEN remaining
                             ELSE max_items_per_call
           IN  <<batch_size>> \o calculate_batch_sizes(remaining - batch_size)
      ELSE <<>>

\* items[:n]
Take(items, n) == SubSeq(items, 1, IF Len(items) < n THEN Len(items) ELSE n)

\* what generate_structured_response gives to _process_batch_generation: an
\* error result, or a dict with up to batch_size + 1 items under "questions"
BatchResponses(batch_size) ==
    { [error |-> "Final structured attempt failed"] }
      \cup { [questions |-> q] : q \in SeqsUpTo(ItemPool, batch_size + 1) }

\* llm_service.py 597-636: the error result is passed on, and the items are
\* trimmed to batch_size
process_batch_generation(response, batch_size) ==
    IF "error" \in DOMAIN response THEN response
    ELSE [questions |-> Take(response.questions, batch_size)]

\* llm_service.py 362-367 and 370: .upper() of a type that is no string
\* raises AttributeError
ValidateRaises(item) ==
    /\ item.type # ""
    /\ item.question # ""
    /\ item.type = NumberType

\* llm_service.py 360-377, for an item on which it does not raise
validate_item(item) == item.type # "" /\ item.question # ""

\* llm_service.py 379-399
enhance_item(item) ==
    [type |-> IF item.type = "" THEN "MCQ" ELSE item.type,
     question |-> IF item.question = "" THEN "Question about the provided context"
                  ELSE item.question,
     enhanced |-> TRUE]

RECURSIVE PadTo(_, _)
\* llm_service.py 340-344: fallback items are appended up to the count
PadTo(items, requested_count) ==
    IF Len(items) < requested_count
      THEN PadTo(Append(items, create_fallback_item), requested_count)
      ELSE items

\* llm_service.py 325-338: the list of _finalize_items when no item makes
\* _validate_item raise
final_items(items, requested_count) ==
    LET head == Take(items, requested_count)
        validated_items == [i \in 1 .. Len(head) |->
                               IF validate_item(head[i]) THEN head[i]
                               ELSE enhance_item(head[i])]
    IN  PadTo(Take(validated_items, requested_count), requested_count)

\* no call of _generate_in_batches
BatchIdle ==
    /\ num_items = 0
    /\ batch_num = 0
    /\ all_items = <<>>
    /\ bpc = "idle"
    /\ finalized = None

\* llm_service.py 270-281: the call, at the head of the loop over batch_sizes
BatchInit ==
    /\ num_items \in 0 .. MaxItems
    /\ batch_num = 0
    /\ all_items = <<>>
    /\ bpc = "loop"
    /\ finalized = None

\* llm_service.py 283-302: one iteration.  The batch generator gives a dict
\* whose items are extended into all_items, or a dict without items, or
\* raises; the last two put batch_size fallback items in their place.
GenerateBatch ==
    /\ bpc = "loop"
    /\ batch_num < Len(calculate_batch_sizes(num_items))
    /\ LET batch_size == calculate_batch_sizes(num_items)[batch_num + 1]
       IN  \/ \E response \in BatchResponses(batch_size) :
                LET batch_result == process_batch_generation(response, batch_size)
                    items == IF "questions" \in DOMAIN batch_result
                             THEN batch_result.questions ELSE <<>>
                IN  all_items' = all_items \o
                        (IF items # <<>> THEN items
                         ELSE create_fallback_items(batch_size))
           \/ all_items' = all_items \o create_fallback_items(batch_size)
    /\ batch_num' = batch_num + 1
    /\ UNCHANGED <<num_items, bpc, finalized>>
    /\ UNCHANGED <<evars, gvars, lvars, cvars, avars>>

\* llm_service.py 304 and 325-357: _finalize_items, called outside every
\* try statement of _generate_in_batches
FinalizeItems ==
    /\ bpc = "loop"
    /\ batch_num = Len(calculate_batch_sizes(num_items))
    /\ IF \E i \in 1 .. Len(Take(all_items, num_items)) : ValidateRaises(all_items[i])
         THEN /\ bpc' = "raised"
              /\ UNCHANGED finalized
         ELSE /\ bpc' = "returned"
              /\ finalized' = [questions |-> final_items(all_items, num_items),
                               count |-> Len(final_items(all_items, num_items)),
                               batches_used |-> batch_num]
    /\ UNCHANGED <<num_items, batch_num, all_items>>
    /\ UNCHANGED <<evars, gvars, lvars, cvars, avars>>

BatchNext == GenerateBatch \/ FinalizeItems

(***************************************************************************)
(* POST /courses/: routes/courses.py create_course and                     *)
(* course_service.create_course over the table of models.Course.           *)
(***************************************************************************)
NumCreates == 3

\* the POST /courses/ requests, which the server runs in its thread pool
CreateReqs == 1 .. NumCreates

\* the course names requests carry
CourseNames == {"Deep Learning", "Finance"}

\* the names of the stored courses
StoredNames == { row.name : row \in course }

\* no POST /courses/ request has been made, the table is empty
CoursesInit ==
    /\ course = {}
    /\ course_id_seq = 1
    /\ cpc = [r \in CreateReqs |-> "idle"]
    /\ course_name = [r \in CreateReqs |-> ""]
    /\ created = [r \in CreateReqs |-> None]

\* routes/courses.py 132-134: the handler is entered with the request's body
PostCourse(r) ==
    /\ cpc[r] = "idle"
    /\ \E name \in CourseNames : course_name' = [course_name EXCEPT ![r] = name]
    /\ cpc' = [cpc EXCEPT ![r] = "query"]
    /\ UNCHANGED <<course, course_id_seq, created>>
    /\ UNCHANGED <<evars, gvars, lvars, qvars, avars>>

\* routes/courses.py 135-136: HTTPException(400) for whatever was raised
ErrorCreating(r, e) ==
    /\ created' = [created EXCEPT ![r] =
                      Response(400, [detail |-> <<"Error creating course: ", e>>])]
    /\ cpc' = [cpc EXCEPT ![r] = "done"]

\* course_service.py 6-9: the query for a course of that name, and
\* ValueError when there is one
QueryExisting(r) ==
    /\ cpc[r] = "query"
    /\ IF course_name[r] \in StoredNames
         THEN ErrorCreating(r, "Course with this name already exists")
         ELSE /\ cpc' = [cpc EXCEPT ![r] = "commit"]
              /\ UNCHANGED created
    /\ UNCHANGED <<course, course_id_seq, course_name>>
    /\ UNCHANGED <<evars, gvars, lvars, qvars, avars>>

\* the row of a new course
NewCourse(id, name) == [id |-> id, name |-> name]

\* faulty variant of the commit: the column name is not declared unique
CommitCourse_NotUnique(r) ==
    /\ cpc[r] = "commit"
    /\ course_id_seq' = course_id_seq + 1
    /\ course' = course \cup {NewCourse(course_id_seq, course_name[r])}
    /\ created' = [created EXCEPT ![r] =
                      Response(200, NewCourse(course_id_seq, course_name[r]))]
    /\ cpc' = [cpc EXCEPT ![r] = "done"]
    /\ UNCHANGED course_name
    /\ UNCHANGED <<evars, gvars, lvars, qvars, avars>>

\* course_service.py 11-22 with models.py 115-116: the INSERT takes the next
\* value of the id sequence and is refused by the unique index on name when
\* a row of that name was committed since the query; otherwise the row is
\* committed, read back and returned
CommitCourse(r) ==
    /\ cpc[r] = "commit"
    /\ course_id_seq' = course_id_seq + 1
    /\ IF course_name[r] \in StoredNames
         THEN /\ ErrorCreating(r, "IntegrityError")
              /\ UNCHANGED course
         ELSE /\ course' = course \cup {NewCourse(course_id_seq, course_name[r])}
              /\ created' = [created EXCEPT ![r] =
                                Response(200, NewCourse(course_id_seq, course_name[r]))]
              /\ cpc' = [cpc EXCEPT ![r] = "done"]
    /\ UNCHANGED course_name
    /\ UNCHANGED <<evars, gvars, lvars, qvars, avars>>

\* course_service.py 24-25: the course list
get_courses == course

CoursesNext ==
    \E r \in CreateReqs : PostCourse(r) \/ QueryExisting(r) \/ CommitCourse(r)

(***************************************************************************)
(* QuizService.submit_quiz_attempt.                                        *)
(***************************************************************************)
MaxQuestions == 3

\* the id of the quiz the attempt is for
QuizId == 1

\* the questions of the quiz, by id
Questions == IF quiz = None THEN {} ELSE 1 .. quiz.questions

\* an empty session
NoRows == [attempts |-> {}, answers |-> {}]

\* the rows of an attempt made before the call
EarlierAttempt == [id |-> 1, quiz_id |-> QuizId, date |-> "earlier", final_grade |-> <<0, 1>>]

EarlierAnswers(n) ==
    { [question_id |-> q, attempt_id |-> 1, answered |-> FALSE, is_correct |-> FALSE] :
        q \in 1 .. n }

\* what grade_answer does for one question: the answer is right, wrong or
\* missing, or the grading raises
GradeOutcomes == {"correct", "incorrect", "no answer", "raise"}

\* no call of submit_quiz_attempt
AttemptIdle ==
    /\ quiz = None
    /\ attempt_table = {}
    /\ answer_table = {}
    /\ session = NoRows
    /\ attempt_id_seq = 1
    /\ apc = "idle"
    /\ gradings = <<>>
    /\ correct_answers = 0
    /\ submitted = None

\* quiz_service.py 90-93: the call, for a quiz of up to MaxQuestions
\* questions or a quiz id that has no row, with or without an earlier attempt
AttemptInit ==
    /\ quiz \in {None} \cup { [id |-> QuizId, questions |-> n] : n \in 0 .. MaxQuestions }
    /\ \/ /\ attempt_table = {}
          /\ answer_table = {}
          /\ attempt_id_seq = 1
       \/ /\ quiz # None
          /\ attempt_table = {EarlierAttempt}
          /\ answer_table = EarlierAnswers(quiz.questions)
          /\ attempt_id_seq = 2
    /\ session = NoRows
    /\ apc = "query"
    /\ gradings = <<>>
    /\ correct_answers = 0
    /\ submitted = None

\* quiz_service.py 94-105: the query for the quiz; without a row the call
\* returns, with one the new Attempt is added and flushed, which gives it
\* its id
QueryQuiz ==
    /\ apc = "query"
    /\ IF quiz = None
         THEN /\ submitted' = [error |-> "Quiz not found"]
              /\ apc' = "returned"
              /\ UNCHANGED <<session, attempt_id_seq>>
         ELSE /\ session' = [session EXCEPT !.attempts =
                                 {[id |-> attempt_id_seq, quiz_id |-> quiz.id,
                                   date |-> "utcnow", final_grade |-> None]}]
              /\ attempt_id_seq' = attempt_id_seq + 1
              /\ apc' = "grade"
              /\ UNCHANGED submitted
    /\ UNCHANGED <<quiz, attempt_table, answer_table, gradings, correct_answers>>
    /\ UNCHANGED <<evars, gvars, lvars, qvars, cvars>>

\* the attempt the session holds
TheAttempt == CHOOSE a \in session.attempts : TRUE

\* faulty variant of the except clause: the session is committed instead of
\* rolled back
Rollback_Commits(e) ==
    /\ attempt_table' = attempt_table \cup session.attempts
    /\ answer_table' = answer_table \cup session.answers
    /\ session' = NoRows
    /\ submitted' = [error |-> <<"Failed to submit quiz attempt: ", e>>]
    /\ apc' = "returned"

\* quiz_service.py 160-163: the except clause rolls the session back and
\* returns an error
Rollback(e) ==
    /\ session' = NoRows
    /\ submitted' = [error |-> <<"Failed to submit quiz attempt: ", e>>]
    /\ apc' = "returned"
    /\ UNCHANGED <<attempt_table, answer_table>>

\* quiz_service.py 111-131: one iteration of the loop over quiz.questions
GradeQuestion ==
    /\ apc = "grade"
    /\ Len(gradings) < quiz.questions
    /\ \E g \in GradeOutcomes :
          /\ gradings' = Append(gradings, g)
          /\ IF g = "raise"
               THEN /\ Rollback("grade_answer")
                    /\ UNCHANGED correct_answers
               ELSE /\ correct_answers' = correct_answers + (IF g = "correct" THEN 1 ELSE 0)
                    /\ session' = [session EXCEPT !.answers = @ \cup
                          {[question_id |-> Len(gradings) + 1,
                            attempt_id |-> TheAttempt.id,
                            answered |-> g # "no answer",
                            is_correct |-> g = "correct"]}]
                    /\ UNCHANGED <<attempt_table, answer_table, submitted, apc>>
    /\ UNCHANGED <<quiz, attempt_id_seq>>
    /\ UNCHANGED <<evars, gvars, lvars, qvars, cvars>>

\* quiz_service.py 134: (correct_answers / total_questions) * 100 as a
\* fraction in lowest terms, 0 for a quiz without questions
final_grade(correct, total_questions) ==
    IF total_questions > 0
      THEN LET g == Gcd(correct * 100, total_questions)
           IN  <<(correct * 100) \div g, total_questions \div g>>
      ELSE <<0, 1>>

\* quiz_service.py 133-158: the grade is set on the attempt, the session is
\* committed and the summary returned
CommitAttempt ==
    /\ apc = "grade"
    /\ Len(gradings) = quiz.questions
    /\ LET grade == final_grade(correct_answers, quiz.questions)
       IN  /\ attempt_table' = attempt_table \cup
                  {[TheAttempt EXCEPT !.final_grade = grade]}
           /\ answer_table' = answer_table \cup session.answers
           /\ submitted' = [attempt_id |-> TheAttempt.id,
                            final_grade |-> grade,
                            correct_answers |-> correct_answers,
                            total_questions |-> quiz.questions,
                            answers |-> session.answers]
    /\ session' = NoRows
    /\ apc' = "returned"
    /\ UNCHANGED <<quiz, attempt_id_seq, gradings, correct_answers>>
    /\ UNCHANGED <<evars, gvars, lvars, qvars, cvars>>

AttemptNext == QueryQuiz \/ GradeQuestion \/ CommitAttempt

StructuredNext == LoopExhausted \/ Attempt \/ SleepOver \/ final_structured_attempt

\* no backend service other than the grader is at work
BackendIdle == LlmIdle /\ BatchIdle /\ CoursesInit /\ AttemptIdle

(***************************************************************************)
(* Specifications.                                                         *)
(***************************************************************************)
Init == ExecInit /\ GradeIdle /\ BackendIdle

Next == ExecNext

\* the executor service under NumReqs overlapping requests
Spec == Init /\ [][Next]_vars

\* the service's own steps are taken when they are enabled: the handler of
\* a request is a running thread; compilers, submitted programs and their
\* descendants are under no such obligation
Fairness == \A r \in Reqs : WF_vars(ServiceStep(r))

FairSpec == Spec /\ Fairness

\* the executor service when callers may go away while they are served
NextCancel == ExecNext \/ \E r \in Reqs : CallerDisconnects(r)

SpecCancel == Init /\ [][NextCancel]_vars

\* the executor service when submitted programs may write large outputs
NextLarge == ExecNext \/ \E r \in Reqs : CommunicateReturnsLarge(r)

SpecLarge == Init /\ [][NextLarge]_vars

InitGrade == ExecInit /\ GradeInit /\ BackendIdle

NextGrade == GradeNext

\* one grading run of test_student_code against the executor's answers
SpecGrade == InitGrade /\ [][NextGrade]_vars

\* answers of the executor the scored results are built from: a run that
\* printed 3 and a timeout
ScoreOutcomes ==
    { RunResult([cause |-> "exit", rc |-> 0, stdout |-> <<"3">>, stderr |-> ""]),
      TimeoutResult }

\* code_execution_service.py 15-31: the list the loop has built for the
\* test cases tcs when the executor answered f[i] for the i-th of them
ResultsFor(tcs, f, mode) ==
    [i \in 1 .. Len(tcs) |-> TestCaseResult(tcs[i], f[i], mode)]

\* test_student_code at line 33: the loop is over, results is complete
InitScore ==
    /\ ExecInit
    /\ BackendIdle
    /\ test_cases \in SeqsUpTo(TestCasePool, MaxScored)
    /\ output_type \in {"exact", "numeric"}
    /\ language = "python"
    /\ gpc = "loop"
    /\ idx = Len(test_cases)
    /\ inflight = NoCall
    /\ \E f \in [1 .. Len(test_cases) -> ScoreOutcomes] :
          results = ResultsFor(test_cases, f, output_type)
    /\ summary = None
    /\ cancelled = [r \in Reqs |-> FALSE]

NextScore == ReturnSummary

\* the summary of test_student_code for up to MaxScored recorded results
SpecScore == InitScore /\ [][NextScore]_vars

\* the characters of the texts the comparison is checked on
CompareChars == {"3", "0", ".", " ", "A", "a"}

\* the executor's answer for a program that printed the text a and exited 0
Printed(a) ==
    Response(200, RunResult([cause |-> "exit", rc |-> 0, stdout |-> a, stderr |-> ""]))

\* the call is answered with the output of a program that printed some text
RecordCompared ==
    \E a \in SeqsUpTo(CompareChars, MaxActualLen) : RecordOutcome(Printed(a))

\* a grading run of one test case, with or without an output_type
InitCompare ==
    /\ ExecInit
    /\ BackendIdle
    /\ \E e \in SeqsUpTo(CompareChars, MaxExpectedLen) :
          test_cases = << [id |-> 1, input |-> <<>>, expected_output |-> e,
                           hidden |-> FALSE] >>
    /\ output_type \in OutputTypes \cup {NoOutputType}
    /\ language = "python"
    /\ gpc = "loop"
    /\ idx = 0
    /\ inflight = NoCall
    /\ results = <<>>
    /\ summary = None
    /\ cancelled = [r \in Reqs |-> FALSE]

NextCompare == PostExecute \/ RecordCompared

\* _compare_outputs on every pair of texts within the bounds, in every mode
SpecCompare == InitCompare /\ [][NextCompare]_vars

InitStructured == ExecInit /\ GradeIdle /\ LlmInit /\ BatchIdle /\ CoursesInit /\ AttemptIdle

\* one call of generate_structured_response, for every max_retries up to
\* MaxRetries and every behaviour of the model behind generate
SpecStructured == InitStructured /\ [][StructuredNext]_vars

\* the coroutine is run to its end by the event loop, and every call of
\* generate comes back
FairStructured == SpecStructured /\ WF_vars(StructuredNext)

InitBatches == ExecInit /\ GradeIdle /\ LlmIdle /\ BatchInit /\ CoursesInit /\ AttemptIdle

InitCourses == ExecInit /\ GradeIdle /\ LlmIdle /\ BatchIdle /\ CoursesInit /\ AttemptIdle

\* NumCreates overlapping POST /courses/ requests on an empty table
SpecCourses == InitCourses /\ [][CoursesNext]_vars

\* one call of _generate_in_batches for up to MaxItems questions, with every
\* outcome of every batch
SpecBatches == InitBatches /\ [][BatchNext]_vars

InitAttempt == ExecInit /\ GradeIdle /\ LlmIdle /\ BatchIdle /\ CoursesInit /\ AttemptInit

\* one call of submit_quiz_attempt
SpecAttempt == InitAttempt /\ [][AttemptNext]_vars

\* every answer the service sends is one the grading model draws from
ResponsesLink ==
    \A r \in Reqs : \A i \in 1 .. Len(responses[r]) :
        LET resp == responses[r][i]
        IN  \/ resp = Response(400, [error |-> "Missing language or code"])
            \/ resp \in HttpOutcomes(lang[r])

(***************************************************************************)
(* Properties of the grading run (checked under SpecGrade).                *)
(***************************************************************************)
\* the execution of a recorded test case did not run cleanly: the executor
\* answered with an error dict (unsupported language, compile failure,
\* timeout, failure to spawn) or could not be reached
ErrorOutcome(x) == "error" \in DOMAIN x.execution_result

\* C1: a test case whose execution ended in a compile error, a timeout, an
\* unsupported-language error or an infrastructure error is never marked
\* passed, whatever the expected output and the comparison mode.
C1_PassedOnlyAfterCleanRun ==
    \A i \in 1 .. Len(results) : ErrorOutcome(results[i]) => ~results[i].passed

\* C9: a failing outcome of one test case never aborts the batch: no
\* exception leaves test_student_code, the loop goes on to every remaining
\* test case, and the run ends with a grade summary over all of them.
C9_FailureDoesNotAbortBatch ==
    /\ gpc # "raised"
    /\ gpc \in {"loop", "await"} => ENABLED NextGrade
    /\ gpc = "done" =>
          /\ summary # None
          /\ Len(summary.detailed_results) = Len(test_cases)

\* a finished run of two test cases whose first execution failed and whose
\* second test case was executed and recorded all the same
C9_Witness ==
    /\ gpc = "done"
    /\ Len(test_cases) = 2
    /\ Len(summary.detailed_results) = 2
    /\ ErrorOutcome(summary.detailed_results[1])
    /\ ~ErrorOutcome(summary.detailed_results[2])

\* C10: the detailed results are one per test case, in the order of the
\* test cases, each with its test case's id, and total_tests is the number
\* of test cases supplied.
C10_OneResultPerTestCaseInOrder ==
    /\ Len(results) = idx
    /\ \A i \in 1 .. Len(results) : results[i].test_case_id = test_cases[i].id
    /\ gpc = "done" =>
          /\ summary.detailed_results = results
          /\ Len(summary.detailed_results) = Len(test_cases)
          /\ summary.total_tests = Len(test_cases)

\* a finished run over two test cases with different ids, the first of which
\* got an error dict from the executor
C10_Witness ==
    /\ gpc = "done"
    /\ Len(test_cases) = 2
    /\ test_cases[1].id # test_cases[2].id
    /\ summary.total_tests = 2
    /\ ErrorOutcome(summary.detailed_results[1])

(***************************************************************************)
(* Properties of the executor service (checked under Spec and FairSpec).   *)
(***************************************************************************)
SourcePath(r) == FilePath(TmpStem(r), Extension(lang[r]))

\* the result execute_code gives after a failed compile of request r
CompileErrorResult(r) ==
    FailedResult(CompilationFailed(CompilerDiagnostic(SourcePath(r))))

Returned(r) == pc[r] = "done"

C3_TimeoutReturns ==
    \A r \in Reqs :
        expired[r] ~> (Returned(r) /\ responses[r] = <<Response(200, TimeoutResult)>>)

\* a request whose child was still running at the deadline has returned Timeout
C3_Witness ==
    \E r \in Reqs :
        /\ expired[r]
        /\ exitInfo[r].cause = "killed"
        /\ Returned(r)
        /\ responses[r] = <<Response(200, TimeoutResult)>>

\* C4: when the Timeout result is returned, the run child and every process
\* it spawned have been terminated.
C4_GroupKilledOnTimeout ==
    \A r \in Reqs :
        (Returned(r) /\ result[r] = TimeoutResult) => (run[r] # "running" /\ ~desc[r])

\* C5: when execute_code has returned, no file the invocation created is
\* left in the execution directory and none of its child processes is alive
\* or unreaped.
C5_CleanOnEveryExitPath ==
    \A r \in Reqs :
        Returned(r) =>
            /\ \A f \in dir : f.owner # r
            /\ compile[r] # "running"
            /\ run[r] \notin {"running", "zombie"}
            /\ ~desc[r]

\* C6: no step replaces a file that belongs to another execution still in
\* progress.
C6_NoFileOfAnotherExecutionOverwritten ==
    [][\A f \in dir : \A g \in dir' :
           (f.path = g.path /\ ~Returned(f.owner)) => g.owner = f.owner]_vars

\* the child of request r ended for the given cause and its exit was
\* reported in the result
Reported(r, cause) ==
    /\ Returned(r)
    /\ exitInfo[r].cause = cause
    /\ result[r] = RunResult(exitInfo[r])

\* C7: the result of a run killed for exceeding a resource limit differs
\* from the result of every run that ended with an ordinary non-zero exit.
C7_LimitKillDistinguishable ==
    \A r1, r2 \in Reqs :
        (Reported(r1, "limit") /\ Reported(r2, "exit")) => result[r1] # result[r2]

\* C8: a request has no response while it is being handled and exactly one
\* once it has been handled; a response once sent is never followed by
\* another.
C8_ExactlyOneOutcome ==
    \A r \in Reqs :
        /\ Len(responses[r]) <= 1
        /\ Returned(r) <=> Len(responses[r]) = 1
        /\ (Returned(r) /\ result[r] # NoResult) => responses[r][1].body = result[r]

\* one request ended with a result, another with the terminal error of an
\* exception that left execute_code
C8_Witness ==
    \E r1, r2 \in Reqs :
        /\ Returned(r1) /\ result[r1] = TimeoutResult /\ Len(responses[r1]) = 1
        /\ Returned(r2) /\ Len(responses[r2]) = 1 /\ responses[r2][1].status = 500

(***************************************************************************)
(* Properties of the grade summary (checked under SpecScore).              *)
(***************************************************************************)
\* the results marked passed, counted as a set of positions
PassedPositions == { i \in 1 .. Len(results) : results[i].passed }

\* C11: the summary's score equals passed_tests / total_tests * 100 with
\* passed_tests the number of results marked passed and passed_tests <=
\* total_tests; it is 0 when there are no test cases, lies in 0..100, and is
\* 75 for 3 passing results out of 4.
C11_ScoreIsPassedOverTotal ==
    gpc = "done" =>
        LET n == summary.total_tests
            k == summary.passed_tests
            num == summary.score[1]
            den == summary.score[2]
        IN  /\ n = Len(test_cases)
            /\ k = Cardinality(PassedPositions)
            /\ k <= n
            /\ den > 0
            /\ IF n = 0 THEN num = 0 ELSE num * n = k * 100 * den
            /\ 0 <= num /\ num <= 100 * den
            /\ (k = 3 /\ n = 4) => summary.score = <<75, 1>>

\* C11 witness: a summary of four results of which three passed and one did not
C11_Witness ==
    /\ gpc = "done"
    /\ summary.total_tests = 4
    /\ summary.passed_tests = 3
    /\ Cardinality(PassedPositions) = 3

(***************************************************************************)
(* Further properties of the executor (checked under Spec).                *)
(***************************************************************************)
\* the files of the execution directory that hold data of request r
FilesOf(r) == { f \in dir : f.owner = r }

\* the request carried a language id that is not in the registry
Unsupported(r) == lang[r] # "none" /\ lang[r] \notin supported_languages

\* C12: a request whose language is not supported has returned the
\* unsupported-language error in its first step: it has no file in the
\* execution directory and neither a compiler nor a run process was started
\* for it.
C12_UnsupportedBeforeAnyWork ==
    \A r \in Reqs :
        Unsupported(r) =>
            /\ Returned(r)
            /\ result[r] = UnsupportedResult(lang[r])
            /\ responses[r] = <<Response(200, UnsupportedResult(lang[r]))>>
            /\ FilesOf(r) = {}
            /\ compile[r] = "none"
            /\ run[r] = "none"
            /\ ~desc[r]

\* C12 witness: a request in the language ruby has been answered
C12_Witness ==
    \E r \in Reqs :
        /\ lang[r] = "ruby"
        /\ Returned(r)
        /\ result[r] = [error |-> "Unsupported language: ruby"]

\* the requests execute_code is working on
InProgress == { r \in Reqs : pc[r] \notin {"idle", "done"} }

\* the requests with a live compiler or run child
WithChild == { r \in Reqs : compile[r] = "running" \/ run[r] = "running" }

\* app.py 137-138 configures no limit; the property is stated for a limit
\* one below the number of requests that arrive
ConcurrencyLimit == NumReqs - 1

\* C14: the executions in progress at the same time never exceed the
\* concurrency limit, and no more requests than the limit have a live child
\* process.
C14_ConcurrencyBounded ==
    /\ Cardinality(InProgress) <= ConcurrencyLimit
    /\ Cardinality(WithChild) <= ConcurrencyLimit

\* the two shapes of the boundary contract
RunShape(b) ==
    /\ DOMAIN b = {"stdout", "stderr", "return_code", "success"}
    /\ b.success = (b.return_code = 0)

ErrorShape(b) == DOMAIN b = {"error"}

\* C15: every response of execute has exactly one of the two shapes
\* {stdout, stderr, return_code, success} and {error}; in the first, success
\* is true if and only if return_code is 0, and a non-zero exit carries the
\* stderr the child wrote.
C15_ResponseShapes ==
    \A r \in Reqs : \A i \in 1 .. Len(responses[r]) :
        LET b == responses[r][i].body
        IN  /\ RunShape(b) \/ ErrorShape(b)
            /\ (RunShape(b) /\ b.return_code # 0) =>
                   /\ ~b.success
                   /\ exitInfo[r].cause \in {"exit", "limit"}
                   /\ b.stderr = exitInfo[r].stderr

\* a program that writes nothing and exits 0
SilentExit == [cause |-> "exit", rc |-> 0, stdout |-> <<>>, stderr |-> ""]

\* app.py 91 and 99 / 102 and 110: the file the run command of a compiled
\* language loads, <stem>.class for `java -cp /tmp/executions <stem>` and
\* <stem>.out for cpp
RunArtifact(r) ==
    FilePath(TmpStem(r), IF lang[r] = "java" THEN "class" ELSE "out")

\* C16: in every supported language the run child of a request executes the
\* request's program, so that a program which writes nothing and exits 0
\* comes back as stdout = "" and success = true; for java and cpp the file
\* the run command loads is the one the request's own compile step wrote.
C16_SilentProgramSucceeds ==
    \A r \in Reqs :
        (lang[r] \in supported_languages /\ run[r] # "none") =>
            /\ SilentExit \in ChildExitChoices(r)
            /\ RunResult(SilentExit) =
                  [stdout |-> <<>>, stderr |-> "", return_code |-> 0, success |-> TRUE]
            /\ lang[r] \in CompiledLanguages =>
                  File(RunArtifact(r), r) \in dir

\* execute_code returned the error dict of an infrastructure failure: the
\* run child could not be spawned (the compiler, if any, had succeeded)
SpawnFailure(r) ==
    /\ Returned(r)
    /\ lang[r] \in supported_languages
    /\ compile[r] # "failed"
    /\ run[r] = "none"
    /\ "error" \in DOMAIN result[r]

\* C21: the error returned for an infrastructure failure is generic: the
\* same text whatever exception the host raised.
C21_GenericInfrastructureError ==
    \A r \in Reqs : \A q \in Reqs :
        (SpawnFailure(r) /\ SpawnFailure(q)) => result[r].error = result[q].error

\* the order of the positions of execute_code: Pending (idle, build),
\* Compiling, Running (popen, communicate), terminal (done)
Stage(p) ==
    CASE p = "idle" -> 0 [] p = "build" -> 1 [] p = "compiling" -> 2
      [] p = "popen" -> 3 [] p = "communicate" -> 4 [] p = "done" -> 5

\* a compiler runs only for java and cpp, and a run child exists only after
\* the compiler, where there is one, has exited with status 0
CompileBeforeRun ==
    \A r \in Reqs :
        /\ compile[r] # "none" => lang[r] \in CompiledLanguages
        /\ pc[r] = "compiling" <=> compile[r] = "running"
        /\ run[r] # "none" =>
              compile[r] = IF lang[r] \in CompiledLanguages THEN "ok" ELSE "none"

\* a step spawns no second compiler and no second run child, moves a
\* request forward only, and changes nothing of a request that has reached
\* its terminal outcome, apart from the reaping of its dead child
NoRetry ==
    \A r \in Reqs :
        /\ Stage(pc'[r]) >= Stage(pc[r])
        /\ compile'[r] = "running" => compile[r] \in {"none", "running"}
        /\ run'[r] = "running" => run[r] \in {"none", "running"}
        /\ compile[r] \in {"ok", "failed"} => compile'[r] = compile[r]
        /\ pc[r] = "done" =>
              /\ pc'[r] = "done"
              /\ result'[r] = result[r]
              /\ responses'[r] = responses[r]
              /\ compile'[r] = compile[r]
              /\ run'[r] \in {run[r], "reaped"}

\* C24: every execution goes Pending -> (Compiling ->)? Running ->
\* terminal: a compiler is spawned only for java and cpp and has exited with
\* status 0 before the run child is spawned, at most one compiler and one
\* run child are spawned per request, and nothing is retried after the
\* terminal outcome.
C24_NoRetryStateMachine == []CompileBeforeRun /\ [][NoRetry]_vars

\* C24 witness: a request in a compiled language has gone through compile
\* and run to its result
C24_Witness ==
    \E r \in Reqs :
        /\ Returned(r)
        /\ lang[r] = "cpp"
        /\ compile[r] = "ok"
        /\ run[r] = "reaped"
        /\ RunShape(result[r])

\* C25: the compile step is bounded by a timeout of its own: while the
\* compiler of a request runs, the service has a step of its own to take
\* for that request (the expiry of the compile timeout), so that the request
\* returns even if the compiler never exits.
C25_CompileBounded ==
    \A r \in Reqs : compile[r] = "running" => ENABLED ServiceStep(r)

\* C27: the CPU-time, address-space and output-size limits are those of
\* every run child from the moment it exists, and the limits of the service
\* process are the ones it started with, whatever has been executed.
C27_LimitsInChildOnly ==
    /\ rlimits.service = Unlimited
    /\ \A r \in Reqs :
          rlimits.child[r] = IF run[r] = "none" THEN Unlimited
                             ELSE [cpu |-> 10, as |-> 268435456, fsize |-> 1048576]

\* C27 witness: two run children have been started under the limits
C27_Witness ==
    /\ \A r \in Reqs : run[r] # "none" /\ rlimits.child[r].cpu = 10
    /\ rlimits.service.cpu = RLIM_INFINITY

(***************************************************************************)
(* Large outputs (checked under SpecLarge).                                *)
(***************************************************************************)
\* C26: the stdout returned in the result of an execution never exceeds
\* MAX_OUTPUT_SIZE, whatever the program wrote.
C26_OutputCapped ==
    \A r \in Reqs :
        "stdout" \in DOMAIN result[r] => Size(result[r].stdout) <= MAX_OUTPUT_SIZE

(***************************************************************************)
(* Callers that go away (checked under SpecCancel).                        *)
(***************************************************************************)
\* C13: the run child of a request whose caller has given up is killed
\* promptly: it is never still running when the request's own deadline
\* expires.
C13_CancelKillsChild ==
    \A r \in Reqs : ~(cancelled[r] /\ expired[r] /\ run[r] = "running")

(***************************************************************************)
(* Properties of _compare_outputs (checked under SpecCompare).             *)
(***************************************************************************)
\* the one comparison of the run has been made
Compared == gpc = "loop" /\ Len(results) = 1

\* t is s without the whitespace before its first and after its last other
\* character
TrimsTo(s, t) ==
    \E i \in 1 .. Len(s) + 1 : \E j \in 0 .. Len(s) :
        /\ i <= j + 1
        /\ t = SubSeq(s, i, j)
        /\ \A k \in 1 .. i - 1 : s[k] \in Whitespace
        /\ \A k \in j + 1 .. Len(s) : s[k] \in Whitespace
        /\ i <= j => (s[i] \notin Whitespace /\ s[j] \notin Whitespace)

Trimmed(s) ==
    CHOOSE t \in { SubSeq(s, i, j) : i \in 1 .. Len(s) + 1, j \in 0 .. Len(s) } :
        TrimsTo(s, t)

\* C17: in exact mode, in an unknown mode and without a mode, the test case
\* is passed exactly when stdout and the expected output are equal after
\* stripping surrounding whitespace from both; "3.0" against "3" is not.
C17_ExactComparesTrimmedTexts ==
    (Compared /\ output_type \in {"exact", "fuzzy", NoOutputType}) =>
        LET x == results[1]
        IN  /\ x.passed = (Trimmed(x.actual) = Trimmed(x.expected))
            /\ (x.actual = <<"3", ".", "0">> /\ x.expected = <<"3">>) => ~x.passed

\* C17 witness: a comparison in an unknown mode in which only the stripped
\* texts are equal
C17_Witness ==
    /\ Compared
    /\ output_type = "fuzzy"
    /\ results[1].actual = <<" ", "A", " ">>
    /\ results[1].expected = <<"A">>
    /\ results[1].passed

RECURSIVE Pow10(_)
Pow10(k) == IF k = 0 THEN 1 ELSE 10 * Pow10(k - 1)

\* the digits of an unsigned decimal literal t without its point, and the
\* number of digits after the point
Digits(t) == SelectSeq(t, LAMBDA c : c \in DigitChars)

Decimals(t) == Len(FracPart(t))

\* t is an unsigned decimal literal: digits with at most one point
ParsesAsNumber(t) ==
    /\ Len(Digits(t)) > 0
    /\ Len(t) - Len(Digits(t)) <= 1
    /\ \A i \in 1 .. Len(t) : t[i] \in DigitChars \cup {"."}

\* two decimal literals denote the same number
SameNumber(t, u) ==
    DigitsValue(Digits(t)) * Pow10(Decimals(u)) = DigitsValue(Digits(u)) * Pow10(Decimals(t))

\* C18: in numeric mode the test case is passed exactly when both trimmed
\* texts parse as numbers of equal value ("3.0" against "3" is passed); when
\* either does not parse, the verdict is the one of the exact comparison,
\* and the comparison never raises.
C18_NumericComparesValues ==
    (gpc # "await" /\ idx = 1 /\ output_type = "numeric") =>
        /\ Compared
        /\ LET x == results[1]
               a == Trimmed(x.actual)
               e == Trimmed(x.expected)
           IN  /\ x.passed = IF ParsesAsNumber(a) /\ ParsesAsNumber(e)
                                THEN SameNumber(a, e)
                                ELSE a = e
               /\ (x.actual = <<"3", ".", "0">> /\ x.expected = <<"3">>) => x.passed

\* C18 witness: "3.0" against "3" in numeric mode
C18_Witness ==
    /\ Compared
    /\ output_type = "numeric"
    /\ results[1].actual = <<"3", ".", "0">>
    /\ results[1].expected = <<"3">>
    /\ results[1].passed

\* the same character, letter case apart
SameLetter(c, d) == c = d \/ {c, d} = {"A", "a"}

\* C19: in contains mode the test case is passed exactly when the trimmed
\* expected text occurs, letter case apart, as a substring of the trimmed
\* stdout.
C19_ContainsIgnoresCase ==
    (Compared /\ output_type = "contains") =>
        LET x == results[1]
            a == Trimmed(x.actual)
            e == Trimmed(x.expected)
        IN  x.passed =
              \E i \in 0 .. Len(a) - Len(e) :
                  \A k \in 1 .. Len(e) : SameLetter(a[i + k], e[k])

\* C19 witness: the expected text occurs in stdout in the other letter case
C19_Witness ==
    /\ Compared
    /\ output_type = "contains"
    /\ results[1].actual = <<"3", "A", " ">>
    /\ results[1].expected = <<"a">>
    /\ results[1].passed

(***************************************************************************)
(* Hidden test cases (checked under SpecGrade).                            *)
(***************************************************************************)
\* the test case with the other value of its hidden flag
FlipHidden(test_case) == [test_case EXCEPT !.hidden = ~@]

\* what the loop records for the i-th test case when its hidden flag is the
\* other way round and the executor gives the same answer
TwinResult(i) ==
    TestCaseResult(FlipHidden(test_cases[i]), results[i].execution_result,
                   ModeOf(output_type))

TwinResults == [i \in 1 .. Len(results) |-> TwinResult(i)]

\* C20: grading does not depend on the hidden flags: the call sent to the
\* executor carries nothing of them, and a run whose test cases differ only
\* in their hidden flags records the same passed flags and returns the same
\* passed_tests and score.
C20_HiddenFlagIrrelevant ==
    /\ inflight # NoCall =>
          inflight = [language |-> language, code |-> "student_code",
                      input |-> test_cases[idx + 1].input]
    /\ gpc \in {"loop", "done"} =>
          /\ Len(results) = idx
          /\ \A i \in 1 .. idx : TwinResult(i).passed = results[i].passed
    /\ gpc = "done" =>
          LET twin == GradeSummary(TwinResults)
          IN  /\ twin.passed_tests = summary.passed_tests
              /\ twin.score = summary.score

\* C20 witness: a finished run over a hidden and a visible test case, the
\* hidden one passed and the visible one not
C20_Witness ==
    /\ gpc = "done"
    /\ Len(test_cases) = 2
    /\ test_cases[1].hidden /\ results[1].passed
    /\ ~test_cases[2].hidden /\ ~results[2].passed

(***************************************************************************)
(* One call at a time (checked under SpecGrade).                           *)
(***************************************************************************)
\* the payload of the call for the i-th test case
PayloadFor(i) ==
    [language |-> language, code |-> "student_code", input |-> test_cases[i].input]

\* a call is in flight only while the loop waits for it, every earlier test
\* case has its result recorded, and the call is the one of the next test case
OneCallInFlight ==
    inflight # NoCall =>
        /\ gpc = "await"
        /\ Len(results) = idx
        /\ idx < Len(test_cases)
        /\ inflight = PayloadFor(idx + 1)

\* a step that sends a call starts from a state with no call in flight and
\* sends the call that follows the recorded results; the language and the
\* test cases never change during the run
SendsAfterRecording ==
    /\ (inflight' # inflight /\ inflight' # NoCall) =>
          /\ inflight = NoCall
          /\ Len(results) = idx
          /\ UNCHANGED <<idx, results>>
          /\ inflight' = PayloadFor(Len(results) + 1)
    /\ (inflight # NoCall /\ inflight' # inflight) =>
          /\ inflight' = NoCall
          /\ idx' = idx + 1
          /\ gpc' = "loop" => results' # results /\ Len(results') = idx'
    /\ UNCHANGED <<language, test_cases>>

\* C28: a grading run has at most one execute call in flight; the call for
\* test case i+1 is sent only after the result of test case i is recorded,
\* and every call carries the language and code of the run with the input of
\* its own test case.
C28_OneCallAtATime == []OneCallInFlight /\ [][SendsAfterRecording]_vars

\* C28 witness: the call of the second test case is in flight, with an input
\* other than that of the first, whose result is recorded
C28_Witness ==
    /\ inflight # NoCall
    /\ idx = 1 /\ Len(results) = 1
    /\ inflight.input = test_cases[2].input
    /\ test_cases[2].input # test_cases[1].input

(***************************************************************************)
(* Structured responses (checked under FairStructured).                    *)
(***************************************************************************)
\* the dict of _build_error_result
ErrorResult(d) == DOMAIN d = {"error", "attempts", "last_prompt"}

\* the dict _extract_and_validate_json gave
ParsedData(d) == d = [questions |-> "parsed"]

\* the calls of generate stay within max_retries + 2, nothing is raised out
\* of the function, what it returns is a dict, and only the last call can
\* have given a valid response, which is then what the function returns
BoundedCalls ==
    /\ Len(llm_calls) <= max_retries + 2
    /\ spc # "raised"
    /\ spc = "returned" <=> structured # None
    /\ spc = "returned" => ErrorResult(structured) \/ ParsedData(structured)
    /\ \A i \in 1 .. Len(llm_calls) :
          llm_calls[i] = "json" =>
              /\ i = Len(llm_calls)
              /\ spc = "returned"
              /\ ParsedData(structured)

\* C29: generate_structured_response terminates and returns a dict, parsed
\* data or an error result, after at most max_retries + 2 calls of generate,
\* whatever the calls give; no exception of a call leaves it and no call
\* follows a valid response.
C29_StructuredTerminates == []BoundedCalls /\ <>(spc = "returned")

\* C29 witness: max_retries + 2 calls were made, the loop's ones failing in
\* both ways, and the function returned the error result of the final attempt
C29_Witness ==
    /\ max_retries = 2
    /\ llm_calls = <<"prose", "raise", "prose", "prose">>
    /\ spc = "returned"
    /\ structured.error = "Final structured attempt failed"

(***************************************************************************)
(* Batched generation (checked under SpecBatches).                         *)
(***************************************************************************)
RECURSIVE Sum(_)
Sum(q) == IF q = <<>> THEN 0 ELSE Head(q) + Sum(Tail(q))

\* the batch sizes add up to num_items and none exceeds max_items_per_call
BatchSizesCover ==
    LET batch_sizes == calculate_batch_sizes(num_items)
    IN  /\ Sum(batch_sizes) = num_items
        /\ \A i \in 1 .. Len(batch_sizes) :
              batch_sizes[i] >= 1 /\ batch_sizes[i] <= max_items_per_call

\* C22: whatever each batch gives (valid items, too few or too many,
\* malformed items, nothing, an exception), the batch sizes cover num_items
\* and the call returns a list of exactly num_items questions.
C22_ExactlyRequested ==
    /\ BatchSizesCover
    /\ bpc # "raised"
    /\ bpc = "returned" =>
          /\ Len(finalized.questions) = num_items
          /\ finalized.count = num_items

(***************************************************************************)
(* Course names (checked under SpecCourses).                               *)
(***************************************************************************)
\* no two stored courses share a name or an id
UniqueNames ==
    \A a, b \in course : (a.name = b.name \/ a.id = b.id) => a = b

\* a request answered with 200 got the row it stored, which is in the course
\* list; a request answered with an error carries a name that is stored
AnswersMatchTable ==
    \A r \in CreateReqs :
        created[r] # None =>
            IF created[r].status = 200
              THEN /\ created[r].body.name = course_name[r]
                   /\ created[r].body \in get_courses
              ELSE /\ created[r].status = 400
                   /\ course_name[r] \in StoredNames
                   /\ \A row \in course : row # created[r].body

\* a step that answers a request either stores exactly one new course, with
\* the request's name, which no stored course had, and an id no stored
\* course has, or answers with an error and leaves the table as it was;
\* no other step changes the table
CreateOrReject ==
    /\ \A r \in CreateReqs :
          (created[r] = None /\ created'[r] # None) =>
              IF course_name[r] \in StoredNames
                THEN created'[r].status = 400 /\ course' = course
                ELSE /\ created'[r].status = 200
                     /\ \E row \in course' \ course :
                           /\ course' = course \cup {row}
                           /\ row.name = course_name[r]
                           /\ \A old \in course : old.id # row.id
    /\ course' # course => \E r \in CreateReqs : created[r] = None /\ created'[r] # None

\* C23: creating a course with a name not in use stores exactly one new
\* course of that name with a fresh id, which is then in the course list;
\* creating one whose name is in use is rejected with an error and leaves
\* the stored courses unchanged; after any create requests, overlapping ones
\* included, no two courses share a name.
C23_CourseNamesUnique ==
    [](UniqueNames /\ AnswersMatchTable) /\ [][CreateOrReject]_vars

\* C23 witness: two overlapping requests for one name both passed the query
\* for an existing course; one was stored, the other refused, and a third
\* request stored a course of another name
C23_Witness ==
    /\ \E r1, r2 \in CreateReqs :
          /\ created[r1] # None /\ created[r2] # None
          /\ created[r1].status = 200
          /\ created[r2] = Response(400, [detail |-> <<"Error creating course: ",
                                                         "IntegrityError">>])
          /\ course_name[r1] = course_name[r2]
    /\ StoredNames = CourseNames

(***************************************************************************)
(* Quiz attempts (checked under SpecAttempt).                              *)
(***************************************************************************)
\* the committed rows that were not there before the call
NewAttempts == { a \in attempt_table : a.date = "utcnow" }

NewAnswers ==
    { x \in answer_table : \A a \in attempt_table \ NewAttempts : x.attempt_id # a.id }

\* the call returned an error
Failed == apc = "returned" /\ "error" \in DOMAIN submitted

\* the call returned its summary
Succeeded == apc = "returned" /\ "error" \notin DOMAIN submitted

\* the number of stored answers of attempt id that are marked correct
CorrectStored(id) ==
    Cardinality({ a \in answer_table : a.attempt_id = id /\ a.is_correct })

\* one attempt of the quiz is stored with one answer for each question, and
\* its grade is that of the stored answers
OneAttemptStored ==
    \E a \in NewAttempts :
        /\ NewAttempts = {a}
        /\ a.id = submitted.attempt_id
        /\ a.quiz_id = quiz.id
        /\ \A q \in Questions :
              Cardinality({ x \in NewAnswers : x.question_id = q }) = 1
        /\ \A x \in NewAnswers : x.question_id \in Questions /\ x.attempt_id = a.id
        /\ a.final_grade =
              IF quiz.questions = 0 THEN <<0, 1>>
              ELSE LET g == Gcd(CorrectStored(a.id) * 100, quiz.questions)
                   IN  <<(CorrectStored(a.id) * 100) \div g, quiz.questions \div g>>
        /\ submitted.final_grade = a.final_grade

\* C30: submit_quiz_attempt is all-or-nothing.  Without the quiz, or when
\* the grading of an answer raises, it returns an error and none of its
\* Attempt and Answer rows is stored; when it succeeds, one Attempt and one
\* Answer for each question of the quiz are stored and final_grade is
\* correct_answers / total_questions * 100, 0 for a quiz without questions.
C30_AttemptAllOrNothing ==
    /\ (apc = "returned" /\ quiz = None) => Failed
    /\ (\E i \in 1 .. Len(gradings) : gradings[i] = "raise") => Failed
    /\ ~Succeeded => NewAttempts = {} /\ NewAnswers = {}
    /\ Succeeded => OneAttemptStored
    /\ attempt_table \ NewAttempts \in {{}, {EarlierAttempt}}

\* C30 witness: the grading of the third answer raised after two answers
\* were graded, the call returned an error, and the attempt made earlier is
\* the only one stored
C30_Witness ==
    /\ Failed
    /\ Len(gradings) = 3 /\ gradings[1] = "correct" /\ gradings[3] = "raise"
    /\ attempt_table = {EarlierAttempt}
    /\ attempt_id_seq = 3

=============================================================================
